---- MODULE Spec2Model ----
(***************************************************************************)
(* A model of src/Current.ts: the environment facade of the extension, its *)
(* settings accessors, the swift-format path resolver and the issue        *)
(* reporter.                                                               *)
(*                                                                         *)
(* A JavaScript string is a sequence of tokens (TLA+ strings); the token   *)
(* "/" at the head of a path marks it absolute.  A JavaScript value is a   *)
(* record [t, b, s, a]: its type tag, and its payload as a boolean, a      *)
(* string or an array of values.  A thrown TypeError is the value whose    *)
(* tag is "TypeError".                                                     *)
(***************************************************************************)
EXTENDS Integers, Sequences, FiniteSets, TLC

VARIABLES
    store,        \* the host's configuration store: key -> stored value
    files,        \* the paths at which a file exists
    absStrict,    \* whether absolutePath throws on a non-string argument
    pending,      \* updates handed to the host and not yet completed
    writes,       \* number of updates the host has completed
    read,         \* the most recent call of a read accessor, with its result
    hostCommand,  \* the last command executed through vscode.commands
    openURLCall,  \* the last call of a facade's openURL
    report        \* the last call of reportIssueForError

vars == <<store, files, absStrict, pending, writes, read, hostCommand,
          openURLCall, report>>

\* Most calls of resetSwiftFormatPath in one behaviour.
MaxResets == 1

-----------------------------------------------------------------------------
(* JavaScript values *)

JsVal(tag, bool, str, arr) == [t |-> tag, b |-> bool, s |-> str, a |-> arr]

Undefined == JsVal("undefined", FALSE, <<>>, <<>>)
Null      == JsVal("null", FALSE, <<>>, <<>>)
TypeError == JsVal("TypeError", FALSE, <<>>, <<>>)
Bool(x)   == JsVal("boolean", x, <<>>, <<>>)
Str(x)    == JsVal("string", FALSE, x, <<>>)
Num(x)    == JsVal("number", FALSE, <<x>>, <<>>)
Arr(x)    == JsVal("array", FALSE, <<>>, x)

\* JavaScript truthiness, as if (v) and v || w decide it.
Truthy(v) ==
    CASE v.t = "boolean" -> v.b
      [] v.t = "string"  -> v.s # <<>>
      [] v.t = "number"  -> v.s # <<"0">>
      [] v.t = "array"   -> TRUE
      [] OTHER           -> FALSE

-----------------------------------------------------------------------------
(* The host: documents, workspace folders, the configuration store *)

KeyEnable      == "apple-swift-format.enable"
KeyOnlySwiftPM == "apple-swift-format.onlyEnableOnSwiftPMProjects"
KeyOnlyConfig  == "apple-swift-format.onlyEnableWithConfig"
KeyPath        == "apple-swift-format.path"
KeySearchPaths == "apple-swift-format.configSearchPaths"

Keys == {KeyEnable, KeyOnlySwiftPM, KeyOnlyConfig, KeyPath, KeySearchPaths}

\* The documents: one inside the open workspace folder, one outside of any.
Documents == {"inWorkspace", "untitled"}

WorkspaceRoot == <<"/", "ws">>

\* vscode.workspace.getWorkspaceFolder(document.uri): the folder's fsPath,
\* or the empty sequence for "no workspace folder".
getWorkspaceFolder(doc) == IF doc = "inWorkspace" THEN WorkspaceRoot ELSE <<>>

\* vscode.workspace.getConfiguration(): a snapshot of the store as it is now;
\* an update still pending at the host is not part of it.
getConfigurationWithPending ==
    IF pending = <<>> THEN store
    ELSE [store EXCEPT ![Head(pending).key] = Head(pending).value]

getConfiguration == store

\* WorkspaceConfiguration.get(key, defaultValue): the stored value whatever
\* its type, the default only when nothing is stored.
configGet(cfg, key, defaultValue) ==
    IF cfg[key].t = "undefined" THEN defaultValue ELSE cfg[key]

-----------------------------------------------------------------------------
(* Paths *)

\* The base directory relative paths are resolved against.
BaseDir == <<"/", "cwd">>

\* path.join(root, rel)
join(root, rel) == root \o <<"/">> \o rel

\* existsSync(fullPath)
existsSync(fullPath) == fullPath \in files

\* absolutePath applied to a string.
absoluteString(s) ==
    IF s # <<>> /\ s[1] = "/" THEN s ELSE BaseDir \o <<"/">> \o s

\* absolutePath(v): typed for strings; on any other value the build either
\* throws or hands the value back.
absolutePath(v) ==
    IF v.t = "string" THEN Str(absoluteString(v.s))
    ELSE IF absStrict THEN TypeError ELSE v

\* xs.map(absolutePath), an exception thrown for one element ending the map.
mapAbsolutePath(xs) ==
    LET ys == [i \in 1..Len(xs) |-> absolutePath(xs[i])]
    IN  IF \E i \in 1..Len(ys) : ys[i] = TypeError THEN TypeError ELSE Arr(ys)

-----------------------------------------------------------------------------
(* config: the settings accessors *)

isEnabled(cfg) == configGet(cfg, KeyEnable, Bool(TRUE))

onlyEnableOnSwiftPMProjects(cfg) == configGet(cfg, KeyOnlySwiftPM, Bool(FALSE))

onlyEnableWithConfig(cfg) == configGet(cfg, KeyOnlyConfig, Bool(FALSE))

\* .get("apple-swift-format.configSearchPaths", [".swift-format"]).map(absolutePath):
\* a stored value that is no array has no map method, and the call throws.
formatConfigSearchPathsUnmapped(cfg) ==
    configGet(cfg, KeySearchPaths, Arr(<<Str(<<".swift-format">>)>>))

formatConfigSearchPaths(cfg) ==
    LET paths == configGet(cfg, KeySearchPaths, Arr(<<Str(<<".swift-format">>)>>))
    IN  IF paths.t = "array" THEN mapAbsolutePath(paths.a) ELSE TypeError

\* The update resetSwiftFormatPath hands to the host: update(key, undefined).
resetUpdateWrongKey == [key |-> KeyEnable, value |-> Undefined]

resetUpdateStoresDefault ==
    [key |-> KeyPath,
     value |-> Arr(<<Str(<<"/", "usr/bin/env">>), Str(<<"swift-format">>)>>)]

resetUpdate == [key |-> KeyPath, value |-> Undefined]

-----------------------------------------------------------------------------
(* config.swiftFormatPath and the global fallback *)

defaultPath == <<Str(<<"/", "usr/bin/env">>), Str(<<"swift-format">>)>>

fallbackNormalizesEveryElement(cfg) ==
    LET path == configGet(cfg, KeyPath, Arr(defaultPath))
    IN  IF path.t = "string" THEN Arr(<<absolutePath(path)>>)
        ELSE IF path.t = "array" /\ Len(path.a) > 0 THEN mapAbsolutePath(path.a)
        ELSE Arr(defaultPath)

fallbackGlobalSwiftFormatPath(cfg) ==
    LET path == configGet(cfg, KeyPath, Arr(defaultPath))
    IN  IF path.t = "string"
        THEN Arr(<<absolutePath(path)>>)
        ELSE IF path.t = "array" /\ Len(path.a) > 0
        THEN LET first == absolutePath(path.a[1])
             IN  IF first = TypeError THEN TypeError
                 ELSE Arr(<<first>> \o Tail(path.a))
        ELSE Arr(defaultPath)

\* The arguments the global fallback passes to absolutePath, in call order.
fallbackAbsolutePathArgs(cfg) ==
    LET path == configGet(cfg, KeyPath, Arr(defaultPath))
    IN  IF path.t = "string" THEN <<path>>
        ELSE IF path.t = "array" /\ Len(path.a) > 0 THEN <<path.a[1]>>
        ELSE <<>>

possibleLocalPathsDebugFirst ==
    << <<".build/debug/swift-format">>, <<".build/release/swift-format">> >>

possibleLocalPaths ==
    << <<".build/release/swift-format">>, <<".build/debug/swift-format">> >>

\* The loop over possibleLocalPaths from its i-th element on: the command of
\* the first candidate that exists, or Undefined when the loop runs out.
RECURSIVE searchLocalPaths(_, _)
searchLocalPaths(doc, i) ==
    IF i > Len(possibleLocalPaths) THEN Undefined
    ELSE LET workspace == getWorkspaceFolder(doc)
         IN  IF workspace = <<>> THEN searchLocalPaths(doc, i + 1)
             ELSE LET fullPath == join(workspace, possibleLocalPaths[i])
                  IN  IF existsSync(fullPath)
                      THEN Arr(<<absolutePath(Str(fullPath))>>)
                      ELSE searchLocalPaths(doc, i + 1)

\* Whether swiftFormatPath leaves its loop without returning.
noLocalBuild(doc) == searchLocalPaths(doc, 1) = Undefined

swiftFormatPathReadsOtherSwitch(doc, cfg) ==
    LET local == searchLocalPaths(doc, 1)
    IN  IF local # Undefined THEN local
        ELSE IF Truthy(configGet(cfg, KeyOnlyConfig, Bool(FALSE))) THEN Null
        ELSE fallbackGlobalSwiftFormatPath(cfg)

swiftFormatPath(doc, cfg) ==
    LET local == searchLocalPaths(doc, 1)
    IN  IF local # Undefined THEN local
        ELSE IF Truthy(configGet(cfg, KeyOnlySwiftPM, Bool(FALSE))) THEN Null
        ELSE fallbackGlobalSwiftFormatPath(cfg)

\* The absolutePath arguments of the fallback, when swiftFormatPath reaches it.
swiftFormatPathFallbackArgs(doc, cfg) ==
    IF noLocalBuild(doc) /\ ~Truthy(configGet(cfg, KeyOnlySwiftPM, Bool(FALSE)))
    THEN fallbackAbsolutePathArgs(cfg) ELSE <<>>

-----------------------------------------------------------------------------
(* editor: openURL and reportIssueForError *)

\* The literal two-character sequence backslash, n.
EscapedNewline == "\\n"

\* String.prototype.replace with a pattern that has no g flag: the first
\* occurrence of the token is replaced, later ones are kept.
RECURSIVE replaceFirst(_, _, _)
replaceFirst(s, pat, rep) ==
    IF s = <<>> THEN <<>>
    ELSE IF Head(s) = pat THEN <<rep>> \o Tail(s)
    ELSE <<Head(s)>> \o replaceFirst(Tail(s), pat, rep)

\* ${v || ""} in a template literal.
orEmpty(v) == IF Truthy(v) THEN v.s ELSE <<>>

reportTitle(error) ==
    replaceFirst(<<"Report", " ">> \o orEmpty(error.code) \o <<" ">>
                    \o orEmpty(error.message),
                 EscapedNewline, " ")

\* JSON.stringify(error): the fields that are set.
stringifyError(error) ==
    <<"{">>
    \o (IF error.code = Undefined THEN <<>> ELSE <<"code:">> \o error.code.s)
    \o (IF error.message = Undefined THEN <<>>
        ELSE <<"message:">> \o error.message.s)
    \o (IF error.stack = Undefined THEN <<>> ELSE <<"stack:">> \o error.stack.s)
    \o <<"}">>

\* The backquote character that opens and closes the body.
Backquote == "BACKQUOTE"

reportBody(error) ==
    <<Backquote>>
    \o (IF Truthy(error.stack) THEN error.stack.s ELSE stringifyError(error))
    \o <<Backquote>>

\* The url tag escapes each interpolated value for use in a URL.
RECURSIVE urlEscape(_)
urlEscape(s) ==
    IF s = <<>> THEN <<>>
    ELSE <<CASE Head(s) = " " -> "%20"
             [] Head(s) = Backquote -> "%60"
             [] Head(s) = EscapedNewline -> "%5Cn"
             [] OTHER -> Head(s)>> \o urlEscape(Tail(s))

issueURL(title, body) ==
    <<"https://github.com/vknabel/vscode-apple-swift-format/issues/new?title=">>
    \o urlEscape(title) \o <<"&body=">> \o urlEscape(body)

\* Facade objects: the module constructs one, Current, and exports it.
Facades == {"Current"}

\* The facade whose openURL reportIssueForError calls: the module-level
\* constant Current, whichever object the method was called on.
reportOpensThrough(facade) == "Current"

-----------------------------------------------------------------------------
(* Inputs *)

EnableValues      == {Undefined, Bool(FALSE), Str(<<"yes">>)}
OnlySwiftPMValues == {Undefined, Bool(TRUE), Bool(FALSE)}
OnlyConfigValues  == {Undefined, Bool(TRUE)}
PathValues ==
    { Undefined,
      Str(<<"/", "opt/bin/swift-format">>),
      Arr(<<>>),
      Arr(<<Str(<<"swift-format">>), Str(<<"--configuration">>), Str(<<"strict">>)>>),
      Arr(<<Num("5"), Str(<<"x">>)>>),
      Num("5") }
SearchPathsValues ==
    { Undefined,
      Arr(<<Str(<<"rules">>), Str(<<"/", "etc/swift-format">>)>>),
      Num("5") }

LocalBuilds == {join(WorkspaceRoot, possibleLocalPaths[i]) : i \in 1..2}

Errors ==
    [ code    : {Undefined, Num("0"), Num("7")},
      message : {Undefined, Str(<<"boom">>), Str(<<"a", EscapedNewline, "b">>),
                 Str(<<"a", EscapedNewline, "b", EscapedNewline, "c">>)},
      stack   : {Undefined, Str(<<"at f">>)} ]

URLs == {<<"https://example.org">>}

NoRead ==
    [name |-> "none", doc |-> "none", cfg |-> [k \in Keys |-> Undefined],
     result |-> Undefined, fallbackAbs |-> <<>>, writes |-> 0, resets |-> 0,
     repeat |-> FALSE, prevResult |-> Undefined, prevWrites |-> 0]

NoCommand == [command |-> "none", arg |-> <<>>]
NoOpenURL == [facade |-> "none", url |-> <<>>]
NoReport ==
    [facade |-> "none",
     error |-> [code |-> Undefined, message |-> Undefined, stack |-> Undefined],
     title |-> <<>>, body |-> <<>>, opened |-> <<>>]

-----------------------------------------------------------------------------
(* The state machine *)

Quiet ==
    /\ pending = <<>>
    /\ writes = 0
    /\ read = NoRead
    /\ hostCommand = NoCommand
    /\ openURLCall = NoOpenURL
    /\ report = NoReport

Init ==
    /\ store \in [Keys -> EnableValues \cup OnlySwiftPMValues \cup OnlyConfigValues
                            \cup PathValues \cup SearchPathsValues]
    /\ store[KeyEnable] \in EnableValues
    /\ store[KeyOnlySwiftPM] \in OnlySwiftPMValues
    /\ store[KeyOnlyConfig] \in OnlyConfigValues
    /\ store[KeyPath] \in PathValues
    /\ store[KeySearchPaths] \in SearchPathsValues
    /\ files \in SUBSET LocalBuilds
    /\ absStrict \in BOOLEAN
    /\ Quiet

\* A read accessor is called and returns (or throws) its result.
Returns(name, doc, result, fallbackAbs) ==
    /\ read' = [name |-> name, doc |-> doc, cfg |-> getConfiguration,
                result |-> result, fallbackAbs |-> fallbackAbs,
                writes |-> writes, resets |-> writes + Len(pending),
                repeat |-> (read.name = name /\ read.doc = doc),
                prevResult |-> IF read.name = name /\ read.doc = doc
                               THEN read.result ELSE Undefined,
                prevWrites |-> IF read.name = name /\ read.doc = doc
                               THEN read.writes ELSE 0]
    /\ UNCHANGED <<store, files, absStrict, pending, writes, hostCommand,
                   openURLCall, report>>

IsEnabled == Returns("isEnabled", "none", isEnabled(getConfiguration), <<>>)

OnlyEnableOnSwiftPMProjects ==
    Returns("onlyEnableOnSwiftPMProjects", "none",
            onlyEnableOnSwiftPMProjects(getConfiguration), <<>>)

OnlyEnableWithConfig ==
    Returns("onlyEnableWithConfig", "none",
            onlyEnableWithConfig(getConfiguration), <<>>)

FormatConfigSearchPaths ==
    Returns("formatConfigSearchPaths", "none",
            formatConfigSearchPaths(getConfiguration), <<>>)

SwiftFormatPath ==
    \E doc \in Documents :
        Returns("swiftFormatPath", doc, swiftFormatPath(doc, getConfiguration),
                swiftFormatPathFallbackArgs(doc, getConfiguration))

\* resetSwiftFormatPath hands the update to the host and returns its
\* Thenable unawaited.
ResetSwiftFormatPath ==
    /\ writes + Len(pending) < MaxResets
    /\ pending' = Append(pending, resetUpdate)
    /\ UNCHANGED <<store, files, absStrict, writes, read, hostCommand,
                   openURLCall, report>>

\* The host completes the oldest pending update.
HostCompleteUpdate ==
    /\ pending # <<>>
    /\ store' = [store EXCEPT ![Head(pending).key] = Head(pending).value]
    /\ pending' = Tail(pending)
    /\ writes' = writes + 1
    /\ UNCHANGED <<files, absStrict, read, hostCommand, openURLCall, report>>

ConfigureSwiftFormatPath ==
    /\ hostCommand' = [command |-> "workbench.action.openSettings", arg |-> <<>>]
    /\ UNCHANGED <<store, files, absStrict, pending, writes, read, openURLCall,
                   report>>

OpenURL ==
    \E facade \in Facades, url \in URLs :
        /\ openURLCall' = [facade |-> facade, url |-> url]
        /\ hostCommand' = [command |-> "vscode.open", arg |-> url]
        /\ UNCHANGED <<store, files, absStrict, pending, writes, read, report>>

ReportIssueForError ==
    \E facade \in Facades, error \in Errors :
        LET title == reportTitle(error)
            body  == reportBody(error)
            url   == issueURL(title, body)
            call  == [facade |-> reportOpensThrough(facade), url |-> url]
        IN  /\ report' = [facade |-> facade, error |-> error, title |-> title,
                          body |-> body, opened |-> <<call>>]
            /\ openURLCall' = call
            /\ hostCommand' = [command |-> "vscode.open", arg |-> url]
            /\ UNCHANGED <<store, files, absStrict, pending, writes, read>>

Next ==
    \/ IsEnabled
    \/ OnlyEnableOnSwiftPMProjects
    \/ OnlyEnableWithConfig
    \/ FormatConfigSearchPaths
    \/ SwiftFormatPath
    \/ ResetSwiftFormatPath
    \/ HostCompleteUpdate

Spec == Init /\ [][Next]_vars

\* The operations that hand off to the host's user interface, over one
\* configuration.
InitEditor ==
    /\ store = [k \in Keys |-> Undefined]
    /\ files = {}
    /\ absStrict \in BOOLEAN
    /\ Quiet

NextEditor ==
    \/ OpenURL
    \/ ReportIssueForError
    \/ ConfigureSwiftFormatPath

SpecEditor == InitEditor /\ [][NextEditor]_vars

-----------------------------------------------------------------------------
(* Properties *)

ReleaseBuild == WorkspaceRoot \o <<"/", ".build/release/swift-format">>
DebugBuild   == WorkspaceRoot \o <<"/", ".build/debug/swift-format">>

EnvSwiftFormat == Arr(<<Str(<<"/", "usr/bin/env">>), Str(<<"swift-format">>)>>)

\* The last read call is swiftFormatPath for a document with no local build.
ResolvedWithoutLocalBuild ==
    /\ read.name = "swiftFormatPath"
    /\ \/ getWorkspaceFolder(read.doc) = <<>>
       \/ (ReleaseBuild \notin files /\ DebugBuild \notin files)

\* ... and the switch did not suppress it: the global fallback decided.
ResolvedByFallback ==
    /\ ResolvedWithoutLocalBuild
    /\ ~Truthy(configGet(read.cfg, KeyOnlySwiftPM, Bool(FALSE)))

AllStrings(xs) == \A i \in 1..Len(xs) : xs[i].t = "string"

\* C1: for a document in a workspace folder swiftFormatPath returns the
\* release build when it exists, else the debug build when that exists, as a
\* one-element command, whatever the path and onlyEnableOnSwiftPMProjects
\* settings are.
C1_LocalBuildFirst ==
    (read.name = "swiftFormatPath" /\ getWorkspaceFolder(read.doc) # <<>>) =>
        /\ ReleaseBuild \in files => read.result = Arr(<<Str(ReleaseBuild)>>)
        /\ (ReleaseBuild \notin files /\ DebugBuild \in files) =>
               read.result = Arr(<<Str(DebugBuild)>>)

C1_Witness ==
    /\ read.name = "swiftFormatPath"
    /\ read.doc = "inWorkspace"
    /\ files = {ReleaseBuild, DebugBuild}
    /\ read.cfg[KeyOnlySwiftPM] = Bool(TRUE)
    /\ read.cfg[KeyPath].t = "string"
    /\ read.result = Arr(<<Str(ReleaseBuild)>>)

\* C2: with no local build, swiftFormatPath returns null when
\* onlyEnableOnSwiftPMProjects is true, whatever path holds, and the global
\* fallback's result, never null, when it is false.
C2_SuppressOrFallBack ==
    ResolvedWithoutLocalBuild =>
        /\ read.cfg[KeyOnlySwiftPM] = Bool(TRUE) => read.result = Null
        /\ read.cfg[KeyOnlySwiftPM] = Bool(FALSE) =>
               /\ read.result = fallbackGlobalSwiftFormatPath(read.cfg)
               /\ read.result # Null

C2_Witness ==
    /\ ResolvedWithoutLocalBuild
    /\ read.doc = "untitled"
    /\ read.cfg[KeyOnlySwiftPM] = Bool(TRUE)
    /\ read.cfg[KeyPath].t = "array"
    /\ read.result = Null

\* C3: the global fallback maps a string s to [absolute(s)], a non-empty
\* sequence of strings to [absolute(first)] followed by the other elements
\* unchanged, and the empty sequence to ["/usr/bin/env", "swift-format"].
C3_FallbackShapes ==
    ResolvedByFallback =>
        LET path == read.cfg[KeyPath]
        IN  /\ path.t = "string" =>
                   read.result = Arr(<<Str(absoluteString(path.s))>>)
            /\ (path.t = "array" /\ Len(path.a) > 0 /\ AllStrings(path.a)) =>
                   read.result =
                       Arr(<<Str(absoluteString(path.a[1].s))>> \o Tail(path.a))
            /\ path = Arr(<<>>) => read.result = EnvSwiftFormat

C3_Witness ==
    /\ ResolvedByFallback
    /\ read.cfg[KeyPath].t = "array"
    /\ read.result = Arr(<<Str(<<"/", "cwd", "/", "swift-format">>),
                            Str(<<"--configuration">>), Str(<<"strict">>)>>)

MalformedPath(path) ==
    \/ path.t \notin {"undefined", "string", "array"}
    \/ path.t = "array" /\ ~AllStrings(path.a)

\* C4: for every malformed stored path the global fallback returns the
\* hard-coded default, passes nothing to absolutePath and raises no error.
C4_MalformedPathGivesDefault ==
    (ResolvedByFallback /\ MalformedPath(read.cfg[KeyPath])) =>
        /\ read.result = EnvSwiftFormat
        /\ read.fallbackAbs = <<>>

\* The fallback's result on a store in which path was never set.
NeverSetResult ==
    fallbackGlobalSwiftFormatPath([read.cfg EXCEPT ![KeyPath] = Undefined])

\* C5, as stated: a global-fallback resolution made after a call of
\* resetSwiftFormatPath returns what it returns when path was never set.
C5_ResetThenResolve ==
    (ResolvedByFallback /\ read.resets >= 1) => read.result = NeverSetResult

\* C5, amended: a global-fallback resolution made after the host has completed
\* the update of a call of resetSwiftFormatPath returns what it returns when
\* path was never set.
C5_ResetCompletedThenResolve ==
    (ResolvedByFallback /\ read.resets >= 1 /\ read.writes = read.resets) =>
        read.result = NeverSetResult

C5_Witness ==
    /\ ResolvedByFallback
    /\ read.resets >= 1
    /\ read.writes = read.resets
    /\ read.repeat
    /\ read.prevWrites = 0
    /\ read.prevResult # read.result
    /\ read.result = EnvSwiftFormat

\* C6: with the key absent, isEnabled returns true, the two onlyEnable
\* accessors return false and formatConfigSearchPaths returns the absolute
\* form of ".swift-format" alone.
C6_AbsentKeyDefaults ==
    /\ (read.name = "isEnabled" /\ read.cfg[KeyEnable] = Undefined) =>
           read.result = Bool(TRUE)
    /\ (read.name = "onlyEnableOnSwiftPMProjects"
            /\ read.cfg[KeyOnlySwiftPM] = Undefined) =>
           read.result = Bool(FALSE)
    /\ (read.name = "onlyEnableWithConfig"
            /\ read.cfg[KeyOnlyConfig] = Undefined) =>
           read.result = Bool(FALSE)
    /\ (read.name = "formatConfigSearchPaths"
            /\ read.cfg[KeySearchPaths] = Undefined) =>
           read.result = Arr(<<Str(<<"/", "cwd", "/", ".swift-format">>)>>)

C6_Witness ==
    /\ read.name = "formatConfigSearchPaths"
    /\ read.cfg[KeySearchPaths] = Undefined
    /\ read.result = Arr(<<Str(<<"/", "cwd", "/", ".swift-format">>)>>)

\* C7: a stored value that is not of the declared type makes the accessor
\* return the documented default, not the stored value and not an error.
C7_MalformedValueGivesDefault ==
    /\ (read.name = "isEnabled"
            /\ read.cfg[KeyEnable].t \notin {"undefined", "boolean"}) =>
           read.result = Bool(TRUE)
    /\ (read.name = "formatConfigSearchPaths"
            /\ read.cfg[KeySearchPaths].t \notin {"undefined", "array"}) =>
           read.result = Arr(<<Str(<<"/", "cwd", "/", ".swift-format">>)>>)

C9_OnlyResetWrites ==
    [][ /\ files' = files
        /\ store' # store =>
               /\ writes + Len(pending) >= 1
               /\ \A k \in Keys \ {KeyPath} : store'[k] = store[k]
               /\ store'[KeyPath] = Undefined
        /\ read' # read => store' = store ]_vars

C9_Witness ==
    /\ writes >= 1
    /\ store[KeyPath] = Undefined
    /\ read.name = "swiftFormatPath"
    /\ read.cfg[KeyPath] # Undefined
    /\ \A k \in Keys \ {KeyPath} : store[k] = read.cfg[k]

\* Every escaped newline of the string replaced by a space.
RECURSIVE collapseAll(_)
collapseAll(s) ==
    IF s = <<>> THEN <<>>
    ELSE <<IF Head(s) = EscapedNewline THEN " " ELSE Head(s)>>
         \o collapseAll(Tail(s))

\* C10: reportIssueForError builds the title from code and message with every
\* escaped newline collapsed to a space, the body from the stack or else the
\* serialized error, and opens exactly one URL through the openURL of the
\* facade it was called on.
C10_ReportIssue ==
    report.facade # "none" =>
        /\ report.title =
               collapseAll(<<"Report", " ">> \o orEmpty(report.error.code)
                              \o <<" ">> \o orEmpty(report.error.message))
        /\ \A i \in 1..Len(report.title) : report.title[i] # EscapedNewline
        /\ report.body =
               <<Backquote>>
               \o (IF Truthy(report.error.stack) THEN report.error.stack.s
                   ELSE stringifyError(report.error))
               \o <<Backquote>>
        /\ Len(report.opened) = 1
        /\ report.opened[1].facade = report.facade

====
